---- MODULE Spec2Model ----
(***************************************************************************)
(* Model of the trading-monitor front end                                  *)
(* (src/frontend/trading_monitor/src/SymbolSelector.jsx):                  *)
(*   - the SymbolSelector widget (lines 5-222): a controlled comma-        *)
(*     separated text value reconciled with a checkbox map over a fixed    *)
(*     catalog of symbols;                                                 *)
(*   - the App controller (lines 229-890): the state slots, the refresh    *)
(*     cycle (health, status, signals) and its interval timer, the start   *)
(*     and stop commands, and fetchSymbolDetails.                          *)
(* JavaScript strings are modelled as sequences of one-character strings,  *)
(* so that split / trim / join / toUpperCase are computed, not assumed.    *)
(***************************************************************************)
EXTENDS Integers, Sequences, FiniteSets, Bags, TLC

VARIABLES
    \* ---- SymbolSelector (widget) ----
    value,            \* prop `value`: the comma-separated text held by the parent
    disabled,         \* prop `disabled`
    mounted,          \* whether the component has been mounted (first effect run)
    selectedSymbols,  \* useState({}) : JS object, insertion-ordered <<key, bool>> pairs
    customSymbol,     \* useState("") : pending custom-symbol field
    syncRuns,         \* ghost: how many times the initial-sync effect body has run
    last,             \* ghost: last edit operation [op, arg, emitted]
    \* ---- App (controller) ----
    monitorStatus,    \* useState({active: false, symbols: [], start_time: null})
    symbolDetails,    \* useState({}) : the per-symbol detail cache
    selectedSymbol,   \* useState(null) : <<>> is null, <<s>> is the symbol s
    isLoading,        \* useState(false)
    error,            \* useState(null) : <<>> is null, <<m>> is the message m
    activeView,       \* useState('dashboard')
    detailCalls,      \* the fetchSymbolDetails calls in flight (a bag of records)
    healthStatus,     \* useState({status: 'unknown', mt5_status: 'Unknown'})
    signals,          \* useState({})
    appPhase,         \* "constructed", "mounted" (first effect run) or "unmounted"
    timers,           \* the armed setInterval timers, each with its closure
    ops,              \* refreshData / startMonitoring / stopMonitoring calls in
                      \* flight; those awaiting GET /monitor/status are in the
                      \* order in which they issued it
    staleApplied,     \* ghost: the last status response applied was issued
                      \* before one that had been applied earlier
    symbolInput       \* useState('EURUSD,GBPUSD,USDJPY,XAUUSD') : the text of the
                      \* "Symbols to Monitor" field

widgetVars == <<value, disabled, mounted, selectedSymbols, customSymbol, syncRuns, last>>

ctlVars == <<healthStatus, signals, appPhase, timers, ops, staleApplied,
             symbolInput>>

appVars == <<monitorStatus, symbolDetails, selectedSymbol, isLoading, error,
             activeView, detailCalls, healthStatus, signals, appPhase, timers,
             ops, staleApplied, symbolInput>>

vars == <<value, disabled, mounted, selectedSymbols, customSymbol, syncRuns, last,
          monitorStatus, symbolDetails, selectedSymbol, isLoading, error,
          activeView, detailCalls, healthStatus, signals, appPhase, timers,
          ops, staleApplied, symbolInput>>

-----------------------------------------------------------------------------
(* Bounds of the model *)

\* handleAddCustomSymbol is only explored while the text has fewer tokens
MaxTokens == 4

\* the ghost counter syncRuns saturates here
MaxSyncRuns == 2

\* fetchSymbolDetails calls in flight at the same time
MaxDetailCalls == 2

\* the App's calls in flight at once (refreshes, commands and detail fetches)
MaxInFlight == 2

-----------------------------------------------------------------------------
(* JavaScript strings as character sequences *)

S_EURUSD == <<"E","U","R","U","S","D">>
S_GBPUSD == <<"G","B","P","U","S","D">>
S_AUDUSD == <<"A","U","D","U","S","D">>
S_NZDUSD == <<"N","Z","D","U","S","D">>
S_USDJPY == <<"U","S","D","J","P","Y">>
S_USDCHF == <<"U","S","D","C","H","F">>
S_USDCAD == <<"U","S","D","C","A","D">>
S_BTCUSD == <<"B","T","C","U","S","D">>
S_NAS100 == <<"N","A","S","1","0","0">>
S_XAUUSD == <<"X","A","U","U","S","D">>
S_FOO    == <<"F","O","O">>

Comma == ","
Space == " "

LowerChars == <<"a","b","c","d","e","f","g","h","i","j","k","l","m",
                "n","o","p","q","r","s","t","u","v","w","x","y","z">>
UpperChars == <<"A","B","C","D","E","F","G","H","I","J","K","L","M",
                "N","O","P","Q","R","S","T","U","V","W","X","Y","Z">>

\* String.prototype.toUpperCase, one character
ToUpperChar(c) ==
    IF \E i \in 1..Len(LowerChars) : LowerChars[i] = c
    THEN UpperChars[CHOOSE i \in 1..Len(LowerChars) : LowerChars[i] = c]
    ELSE c

\* String.prototype.toUpperCase
ToUpperCase(s) == [i \in 1..Len(s) |-> ToUpperChar(s[i])]

\* white space as String.prototype.trim sees it
IsSpace(c) == c \in {" ", "\t", "\n"}

RECURSIVE TrimStart(_)
TrimStart(s) ==
    IF s # <<>> /\ IsSpace(Head(s)) THEN TrimStart(Tail(s)) ELSE s

RECURSIVE TrimEnd(_)
TrimEnd(s) ==
    IF s # <<>> /\ IsSpace(s[Len(s)]) THEN TrimEnd(SubSeq(s, 1, Len(s) - 1)) ELSE s

\* String.prototype.trim
Trim(s) == TrimEnd(TrimStart(s))

\* String.prototype.split(','): "" gives [""], "a,,b" gives ["a","","b"]
RECURSIVE Split(_)
Split(s) ==
    IF \E i \in 1..Len(s) : s[i] = Comma
    THEN LET i == CHOOSE j \in 1..Len(s) :
                     s[j] = Comma /\ \A k \in 1..(j - 1) : s[k] # Comma
         IN  <<SubSeq(s, 1, i - 1)>> \o Split(SubSeq(s, i + 1, Len(s)))
    ELSE <<s>>

\* Array.prototype.join(',')
RECURSIVE Join(_)
Join(arr) ==
    IF arr = <<>> THEN <<>>
    ELSE IF Len(arr) = 1 THEN arr[1]
    ELSE arr[1] \o <<Comma>> \o Join(Tail(arr))

\* Array.prototype.map(s => s.trim())
MapTrim(arr) == [i \in 1..Len(arr) |-> Trim(arr[i])]

\* Array.prototype.includes
Includes(arr, x) == \E i \in 1..Len(arr) : arr[i] = x

\* Array.prototype.filter(Boolean) on strings: the empty string is falsy
FilterNonEmpty(arr) == SelectSeq(arr, LAMBDA s : s # <<>>)

\* value.split(',').map(s => s.trim()).filter(Boolean)
SplitTrimFilter(text) == FilterNonEmpty(MapTrim(Split(text)))

-----------------------------------------------------------------------------
(* JavaScript objects with string keys: insertion-ordered <<key, value>> pairs *)

ObjKeys(o) == [i \in 1..Len(o) |-> o[i][1]]

ObjHas(o, k) == \E i \in 1..Len(o) : o[i][1] = k

\* o[k], read in a boolean context: a missing key is undefined, which is falsy
ObjGet(o, k) ==
    IF ObjHas(o, k) THEN o[CHOOSE i \in 1..Len(o) : o[i][1] = k][2] ELSE FALSE

\* o[k] = v : an existing key keeps its place, a new key is appended
ObjSet(o, k, v) ==
    IF ObjHas(o, k)
    THEN [i \in 1..Len(o) |-> IF o[i][1] = k THEN <<k, v>> ELSE o[i]]
    ELSE Append(o, <<k, v>>)

-----------------------------------------------------------------------------
(* SymbolSelector: constants *)

\* symbolCategories, in declaration order
symbolCategories ==
    << <<"Major Forex", <<S_EURUSD, S_GBPUSD, S_AUDUSD, S_NZDUSD,
                          S_USDJPY, S_USDCHF, S_USDCAD>> >>,
       <<"Crypto",      <<S_BTCUSD>> >>,
       <<"Indices",     <<S_NAS100>> >> >>

RECURSIVE Flat(_)
Flat(arrs) == IF arrs = <<>> THEN <<>> ELSE Head(arrs) \o Flat(Tail(arrs))

\* Object.values(symbolCategories).flat()
allCommonSymbols == Flat([i \in 1..Len(symbolCategories) |-> symbolCategories[i][2]])

-----------------------------------------------------------------------------
(* SymbolSelector: inputs explored *)

T_Empty == <<>>

\* 'EURUSD,GBPUSD,USDJPY,XAUUSD' : the App's initial symbolInput
T_Default == Join(<<S_EURUSD, S_GBPUSD, S_USDJPY, S_XAUUSD>>)

\* "EURUSD, GBPUSD, FOO"
T_Example == S_EURUSD \o <<Comma, Space>> \o S_GBPUSD \o <<Comma, Space>> \o S_FOO

\* " ,EURUSD,, FOO ,EURUSD,FOO" : empty pieces, padding, duplicates
T_Messy ==
    <<Space, Comma>> \o S_EURUSD \o <<Comma, Comma, Space>> \o S_FOO
        \o <<Space, Comma>> \o S_EURUSD \o <<Comma>> \o S_FOO

\* "XAUUSD,NAS100,EURUSDX,EUR USD,GBPUSD\n" : catalog symbols out of catalog
\* order, near-misses of a catalog symbol, a trailing line break
T_Reordered ==
    S_XAUUSD \o <<Comma>> \o S_NAS100 \o <<Comma>> \o S_EURUSD \o <<"X", Comma>>
        \o <<"E","U","R",Space,"U","S","D">> \o <<Comma>> \o S_GBPUSD \o <<"\n">>

\* the `value` prop at construction
InitialValues == {T_Empty, T_Default, T_Example}

\* e.target.value of the textarea, and values a parent may push
TextInputs == {T_Empty, T_Example, T_Messy, T_Reordered}

\* the catalog tiles clicked
ToggleInputs == {S_EURUSD, S_AUDUSD, S_NAS100}

\* e.target.value of the custom-symbol input, as typed
CustomInputs ==
    { <<>>, <<"f","o","o">>, <<"a","u","d","u","s","d">>,
      <<"E","U","R","U","S","D",Space>> }

-----------------------------------------------------------------------------
(* SymbolSelector: helpers of the handlers *)

\* allCommonSymbols.forEach(symbol => { o[symbol] = symbolsArray.includes(symbol) })
RECURSIVE ForEachSetIncluded(_, _, _)
ForEachSetIncluded(o, symbolsArray, i) ==
    IF i > Len(allCommonSymbols) THEN o
    ELSE ForEachSetIncluded(
             ObjSet(o, allCommonSymbols[i], Includes(symbolsArray, allCommonSymbols[i])),
             symbolsArray, i + 1)

\* body of the mount effect: initialSelected built from `value`
InitialSync(text) == ForEachSetIncluded(<<>>, SplitTrimFilter(text), 1)

\* variant: the pieces of the text are compared without being trimmed
DeriveSelected_NoTrim(sel, newInput) ==
    ForEachSetIncluded(sel, FilterNonEmpty(Split(newInput)), 1)

\* variant: a symbol found in the text has its checkbox flipped, not set
RECURSIVE ForEachFlipIncluded(_, _, _)
ForEachFlipIncluded(o, symbolsArray, i) ==
    IF i > Len(allCommonSymbols) THEN o
    ELSE ForEachFlipIncluded(
             IF Includes(symbolsArray, allCommonSymbols[i])
             THEN ObjSet(o, allCommonSymbols[i], ~ObjGet(o, allCommonSymbols[i]))
             ELSE ObjSet(o, allCommonSymbols[i], FALSE),
             symbolsArray, i + 1)

DeriveSelected_Flip(sel, newInput) ==
    ForEachFlipIncluded(sel, SplitTrimFilter(newInput), 1)

\* handleDirectInputChange: newSelectedSymbols built on a copy of selectedSymbols
DeriveSelected(sel, newInput) == ForEachSetIncluded(sel, SplitTrimFilter(newInput), 1)

\* variant: the effect depends on `value` and runs again when it changes
SyncEffectDeps_Value(v) == <<v>>

\* dependency array of the mount effect
SyncEffectDeps(v) == <<>>

\* effects after a render in which `value` went from oldValue to newValue:
\* the sync effect runs again only if its dependencies changed
AfterRender(oldValue, newValue, sel) ==
    IF SyncEffectDeps(oldValue) # SyncEffectDeps(newValue)
    THEN InitialSync(newValue)
    ELSE sel

RunsAfterRender(oldValue, newValue) ==
    IF SyncEffectDeps(oldValue) # SyncEffectDeps(newValue) /\ syncRuns < MaxSyncRuns
    THEN syncRuns + 1
    ELSE syncRuns

\* variant: only the checked symbols are emitted
updateSymbolInput_DropsCustom(newSelectedSymbols, v) ==
    Join(SelectSeq(ObjKeys(newSelectedSymbols),
                   LAMBDA key : ObjGet(newSelectedSymbols, key)))

\* variant: the custom symbols are emitted before the checked symbols
updateSymbolInput_CustomFirst(newSelectedSymbols, v) ==
    Join(SelectSeq(MapTrim(Split(v)),
                   LAMBDA s : s # <<>> /\ ~Includes(allCommonSymbols, s))
         \o SelectSeq(ObjKeys(newSelectedSymbols),
                      LAMBDA key : ObjGet(newSelectedSymbols, key)))

\* updateSymbolInput(newSelectedSymbols): the text handed to onChange
updateSymbolInput(newSelectedSymbols, v) ==
    LET checkedSymbols ==
            SelectSeq(ObjKeys(newSelectedSymbols),
                      LAMBDA key : ObjGet(newSelectedSymbols, key))
        currentCustomSymbols ==
            SelectSeq(MapTrim(Split(v)),
                      LAMBDA s : s # <<>> /\ ~Includes(allCommonSymbols, s))
    IN  Join(checkedSymbols \o currentCustomSymbols)

\* handleAddCustomSymbol: whether onChange is called
AddEmits(v, c) == ~Includes(SplitTrimFilter(v), c)

\* handleAddCustomSymbol: the text handed to onChange
AddText(v, c) == Join(Append(SplitTrimFilter(v), c))

\* variant: the map is rebuilt without spreading the previous one
AddSelected_Fresh(sel, c) ==
    IF Includes(allCommonSymbols, c) THEN ObjSet(<<>>, c, TRUE) ELSE sel

\* handleAddCustomSymbol: the checkbox map it sets
AddSelected(sel, c) ==
    IF Includes(allCommonSymbols, c) THEN ObjSet(sel, c, TRUE) ELSE sel

\* the controlled component's parent: onChange(text) stores text as `value`
ParentOnChange(text) == text

NoOp == [op |-> "none", arg |-> <<>>, emitted |-> <<>>]

-----------------------------------------------------------------------------
(* SymbolSelector: state machine *)

\* useEffect(() => {...}, []) : first run, after the first render
MountEffect ==
    /\ ~mounted
    /\ mounted' = TRUE
    /\ selectedSymbols' = InitialSync(value)
    /\ syncRuns' = syncRuns + 1
    /\ last' = [op |-> "mount", arg |-> <<>>, emitted |-> <<>>]
    /\ UNCHANGED <<value, disabled, customSymbol>>
    /\ UNCHANGED appVars

handleSymbolToggle(symbol) ==
    /\ mounted
    /\ IF disabled
       THEN UNCHANGED vars
       ELSE LET newSelectedSymbols ==
                    ObjSet(selectedSymbols, symbol, ~ObjGet(selectedSymbols, symbol))
                text == updateSymbolInput(newSelectedSymbols, value)
            IN  /\ value' = ParentOnChange(text)
                /\ selectedSymbols' = AfterRender(value, text, newSelectedSymbols)
                /\ syncRuns' = RunsAfterRender(value, text)
                /\ last' = [op |-> "toggle", arg |-> symbol, emitted |-> <<text>>]
                /\ UNCHANGED <<disabled, mounted, customSymbol>>
                /\ UNCHANGED appVars

handleAddCustomSymbol ==
    /\ mounted
    /\ Len(SplitTrimFilter(value)) < MaxTokens
    /\ IF customSymbol = <<>> \/ disabled
       THEN UNCHANGED vars
       ELSE LET emits == AddEmits(value, customSymbol)
                text  == IF emits THEN ParentOnChange(AddText(value, customSymbol))
                         ELSE value
            IN  /\ value' = text
                /\ selectedSymbols' =
                       AfterRender(value, text, AddSelected(selectedSymbols, customSymbol))
                /\ syncRuns' = RunsAfterRender(value, text)
                /\ customSymbol' = <<>>
                /\ last' = [op |-> "add", arg |-> customSymbol,
                            emitted |-> IF emits THEN <<text>> ELSE <<>>]
                /\ UNCHANGED <<disabled, mounted>>
                /\ UNCHANGED appVars

handleDirectInputChange(newInput) ==
    /\ mounted
    /\ ~disabled
    /\ value' = ParentOnChange(newInput)
    /\ selectedSymbols' =
           AfterRender(value, newInput, DeriveSelected(selectedSymbols, newInput))
    /\ syncRuns' = RunsAfterRender(value, newInput)
    /\ last' = [op |-> "input", arg |-> newInput, emitted |-> <<newInput>>]
    /\ UNCHANGED <<disabled, mounted, customSymbol>>
    /\ UNCHANGED appVars

\* onChange of the custom-symbol input: setCustomSymbol(e.target.value.toUpperCase())
CustomSymbolChange(raw) ==
    /\ mounted
    /\ ~disabled
    /\ customSymbol' = ToUpperCase(raw)
    /\ UNCHANGED <<value, disabled, mounted, selectedSymbols, syncRuns, last>>
    /\ UNCHANGED appVars

\* the parent re-renders the widget with another `disabled`
ParentSetsDisabled ==
    /\ mounted
    /\ disabled' = ~disabled
    /\ UNCHANGED <<value, mounted, selectedSymbols, customSymbol, syncRuns, last>>
    /\ UNCHANGED appVars

\* the parent re-renders the widget with a `value` that no widget edit emitted
ParentSetsValue(t) ==
    /\ mounted
    /\ t # value
    /\ value' = t
    /\ selectedSymbols' = AfterRender(value, t, selectedSymbols)
    /\ syncRuns' = RunsAfterRender(value, t)
    /\ last' = [op |-> "external", arg |-> t, emitted |-> <<>>]
    /\ UNCHANGED <<disabled, mounted, customSymbol>>
    /\ UNCHANGED appVars

Toggle == \E symbol \in ToggleInputs : handleSymbolToggle(symbol)
DirectInput == \E newInput \in TextInputs : handleDirectInputChange(newInput)
CustomTyping == \E raw \in CustomInputs : CustomSymbolChange(raw)
ExternalValue == \E t \in TextInputs : ParentSetsValue(t)

WidgetNext ==
    \/ MountEffect
    \/ Toggle
    \/ handleAddCustomSymbol
    \/ DirectInput
    \/ CustomTyping
    \/ ParentSetsDisabled

WidgetExtNext ==
    \/ WidgetNext
    \/ ExternalValue

-----------------------------------------------------------------------------
(* App: constants and inputs *)

\* bodies of GET /monitor/status explored
StatusInactive == [active |-> FALSE, symbols |-> <<>>]
StatusActive   == [active |-> TRUE,  symbols |-> <<S_EURUSD, S_XAUUSD>>]
StatusInputs   == {StatusInactive, StatusActive}

\* the four sub-requests of fetchSymbolDetails, in program order
DetailKinds == <<"chart", "levels", "analysis", "price">>
AllKinds == {DetailKinds[i] : i \in 1..Len(DetailKinds)}

KindIndex(k) == CHOOSE i \in 1..Len(DetailKinds) : DetailKinds[i] = k

\* the decoded body of one endpoint for one symbol
Body(kind, symbol) == <<kind, symbol>>

\* `Failed to fetch details for ${symbol}`
DetailError(symbol) == <<"Failed to fetch details for ", symbol>>

\* {} : a JS object with no keys
EmptyDetails == [s \in {} |-> <<>>]

\* monitorStatus.active as JavaScript reads it: a body without the field
\* gives undefined
ActiveDep(ms) ==
    IF "active" \in DOMAIN ms
    THEN (IF ms.active THEN "true" ELSE "false")
    ELSE "undefined"

\* the truthiness of monitorStatus.active
IsActive(ms) == ActiveDep(ms) = "true"

\* the initial healthStatus
HealthUnknown == [status |-> "unknown", mt5_status |-> "Unknown"]

\* the body of a successful GET /health
HealthOk == [status |-> "ok", mt5_status |-> "Connected"]

\* the healthStatus written on a transport failure
HealthError == [status |-> "error", mt5_status |-> "Unknown"]

\* the initial signals, {}, and the body of a successful GET /monitor/signals
NoSignals == [s \in {} |-> <<>>]
SomeSignals == [EURUSD |-> <<"bullish">>]

\* the JSON body of a response with an HTTP error status
ErrorBody == [detail |-> "Not Found"]

\* how a request settles: with a success response, with an HTTP error status
\* and a JSON body, with a rejected fetch (transport failure), or with a body
\* that response.json() cannot decode
HealthKinds == {"ok", "http", "transport"}
PollKinds == {"ok", "http", "transport", "badjson"}
PostKinds == {"ok", "http", "transport"}

\* the bodies a GET /monitor/status or a GET /monitor/signals of each kind
\* can carry (a rejected request carries none: the argument is not read)
StatusBodies(kind) ==
    IF kind = "ok" THEN StatusInputs
    ELSE IF kind = "http" THEN {ErrorBody}
    ELSE {StatusInactive}

SignalsBodies(kind) ==
    IF kind = "ok" THEN {SomeSignals}
    ELSE IF kind = "http" THEN {ErrorBody}
    ELSE {NoSignals}

\* the messages: err.message of a rejected fetch, the `detail` of the
\* server's error body, and the texts of the code
MsgFailedToFetch == <<"Failed to fetch">>
MsgDetail == <<"MT5 not connected">>
MsgCors == <<"CORS Error: Cannot connect to API server. Make sure the API server is running and has CORS enabled.">>
MsgHealthHttp == <<"Could not connect to API server: HTTP error! Status: 500">>
MsgStartFailed == <<"Failed to start monitoring">>
MsgStopFailed == <<"Failed to stop monitoring">>

\* the `detail` of the error body of a POST: <<>> is missing or empty
PostDetails == {<<>>, <<MsgDetail>>}

-----------------------------------------------------------------------------
(* App: helpers of fetchSymbolDetails *)

\* variant: the four fetches are started together and awaited afterwards
IssuedAtStart_All == AllKinds

\* the requests issued before the first await: the chart fetch only
IssuedAtStart == {DetailKinds[1]}

\* the requests issued once those in `resolved` have resolved: each fetch is
\* awaited before the next one is started
IssuedAfter(issued, resolved) ==
    IF \E i \in 1..Len(DetailKinds) : DetailKinds[i] \notin resolved
    THEN LET i == CHOOSE j \in 1..Len(DetailKinds) :
                     /\ DetailKinds[j] \notin resolved
                     /\ \A k \in 1..(j - 1) : DetailKinds[k] \in resolved
         IN  issued \cup {DetailKinds[i]}
    ELSE issued

\* the request the code is awaiting: the first one, in program order, that
\* has not resolved
Awaited(c) ==
    DetailKinds[CHOOSE j \in 1..Len(DetailKinds) :
                    /\ DetailKinds[j] \notin c.resolved
                    /\ \A k \in 1..(j - 1) : DetailKinds[k] \in c.resolved]

\* the cache entry built from the four decoded bodies
DetailEntry(symbol) ==
    [chart    |-> Body("chart", symbol),
     levels   |-> Body("levels", symbol),
     analysis |-> Body("analysis", symbol),
     price    |-> Body("price", symbol)]

\* variant: the commit writes back the captured cache without the new entry
MergedDetails_ClosureOnly(closure, symbol) == closure

\* {...symbolDetails, [symbol]: {...}} over the symbolDetails of the render
\* in which the call was made
MergedDetails(closure, symbol) == (symbol :> DetailEntry(symbol)) @@ closure

\* variant: a failed call drops the symbol's entry
DetailsAfterFailure_Evict(details, symbol) ==
    [s \in (DOMAIN details) \ {symbol} |-> details[s]]

\* the catch and finally blocks do not touch symbolDetails
DetailsAfterFailure(details, symbol) == details

\* a setState of a component that has been unmounted is a no-op
Setter(old, new) == IF appPhase = "unmounted" THEN old ELSE new

InFlight == BagToSet(detailCalls)

AddCall(c) == detailCalls (+) SetToBag({c})

DropCall(c) == detailCalls (-) SetToBag({c})

-----------------------------------------------------------------------------
(* App: state machine of the symbol-detail view *)

\* a GET /monitor/status of a refresh resolves: setMonitorStatus(data)
fetchMonitorStatus(data) ==
    /\ monitorStatus' = data
    /\ UNCHANGED <<symbolDetails, selectedSymbol, isLoading, error, activeView,
                   detailCalls>>
    /\ UNCHANGED widgetVars
    /\ UNCHANGED ctlVars

\* fetchSymbolDetails(symbol) up to its first await
fetchSymbolDetails(symbol) ==
    /\ BagCardinality(detailCalls) < MaxDetailCalls
    /\ isLoading' = TRUE
    /\ detailCalls' = AddCall([symbol   |-> symbol,
                               closure  |-> symbolDetails,
                               issued   |-> IssuedAtStart,
                               resolved |-> {}])
    /\ UNCHANGED <<monitorStatus, symbolDetails, selectedSymbol, error, activeView>>
    /\ UNCHANGED widgetVars
    /\ UNCHANGED ctlVars

\* a click on the tile of a monitored symbol (dashboard view)
TileClick(symbol) ==
    /\ activeView = "dashboard"
    /\ IsActive(monitorStatus)
    /\ Includes(monitorStatus.symbols, symbol)
    /\ fetchSymbolDetails(symbol)

\* a click on Refresh in the detail view (rendered once the entry exists)
DetailRefreshClick ==
    /\ activeView = "symbolDetail"
    /\ selectedSymbol # <<>>
    /\ selectedSymbol[1] \in DOMAIN symbolDetails
    /\ ~isLoading
    /\ fetchSymbolDetails(selectedSymbol[1])

\* the awaited fetch resolves with a response: the next request is issued
DetailFetchResolves(c) ==
    /\ c.resolved # AllKinds
    /\ Awaited(c) \in c.issued
    /\ LET resolved == c.resolved \cup {Awaited(c)}
       IN  detailCalls' =
               DropCall(c) (+) SetToBag({[c EXCEPT !.resolved = resolved,
                                                   !.issued = IssuedAfter(c.issued, resolved)]})
    /\ UNCHANGED <<monitorStatus, symbolDetails, selectedSymbol, isLoading, error,
                   activeView>>
    /\ UNCHANGED widgetVars
    /\ UNCHANGED ctlVars

\* catch (err) { setError(...) } finally { setIsLoading(false) }
DetailFails(c) ==
    /\ symbolDetails' = DetailsAfterFailure(symbolDetails, c.symbol)
    /\ error' = Setter(error, <<DetailError(c.symbol)>>)
    /\ isLoading' = Setter(isLoading, FALSE)
    /\ detailCalls' = DropCall(c)
    /\ UNCHANGED <<monitorStatus, selectedSymbol, activeView>>
    /\ UNCHANGED widgetVars
    /\ UNCHANGED ctlVars

\* the awaited fetch is rejected (a transport failure)
DetailFetchRejects(c) ==
    /\ c.resolved # AllKinds
    /\ DetailFails(c)

\* one of the four response.json() of the Promise.all is rejected
DetailDecodeRejects(c) ==
    /\ c.resolved = AllKinds
    /\ DetailFails(c)

\* the four response.json() resolve: the merged entry is committed
DetailDecodeResolves(c) ==
    /\ c.resolved = AllKinds
    /\ symbolDetails' = Setter(symbolDetails, MergedDetails(c.closure, c.symbol))
    /\ selectedSymbol' = Setter(selectedSymbol, <<c.symbol>>)
    /\ activeView' = Setter(activeView, "symbolDetail")
    /\ error' = Setter(error, <<>>)
    /\ isLoading' = Setter(isLoading, FALSE)
    /\ detailCalls' = DropCall(c)
    /\ UNCHANGED monitorStatus
    /\ UNCHANGED widgetVars
    /\ UNCHANGED ctlVars

\* a click on Back to Dashboard (rendered once the entry exists)
BackToDashboard ==
    /\ activeView = "symbolDetail"
    /\ selectedSymbol # <<>>
    /\ selectedSymbol[1] \in DOMAIN symbolDetails
    /\ activeView' = "dashboard"
    /\ UNCHANGED <<monitorStatus, symbolDetails, selectedSymbol, isLoading, error,
                   detailCalls>>
    /\ UNCHANGED widgetVars
    /\ UNCHANGED ctlVars

StatusPoll == \E data \in StatusInputs : fetchMonitorStatus(data)
Tile == \E symbol \in {S_EURUSD, S_XAUUSD} : TileClick(symbol)
FetchResolves == \E c \in InFlight : DetailFetchResolves(c)
FetchRejects == \E c \in InFlight : DetailFetchRejects(c)
DecodeResolves == \E c \in InFlight : DetailDecodeResolves(c)
DecodeRejects == \E c \in InFlight : DetailDecodeRejects(c)

DetailNext ==
    \/ StatusPoll
    \/ Tile
    \/ DetailRefreshClick
    \/ FetchResolves
    \/ FetchRejects
    \/ DecodeResolves
    \/ DecodeRejects
    \/ BackToDashboard

-----------------------------------------------------------------------------
(* App: helpers of the refresh cycle, the timer and the start/stop commands *)

RemoveAt(s, i) == SubSeq(s, 1, i - 1) \o SubSeq(s, i + 1, Len(s))

\* a call of refreshData up to its first await: GET /health is issued; `active`
\* is monitorStatus.active of the render whose refreshData is called
NewRefresh(active) ==
    [kind |-> "refresh", active |-> active, awaiting |-> "health",
     issued |-> {"health"}, settled |-> {}, stale |-> FALSE]

\* symbolInput.split(',').map(s => s.trim()) : the `symbols` of the body of
\* POST /monitor/start
PostSymbols(text) == MapTrim(Split(text))

\* a call of startMonitoring / stopMonitoring up to its first await: the POST
\* is issued (the call never reads monitorStatus: `active` is not used)
NewCommand(kind) ==
    [kind |-> kind, active |-> "false",
     awaiting |-> "post", issued |-> {"post"}, settled |-> {}, stale |-> FALSE,
     symbolInput |-> IF kind = "start" THEN symbolInput ELSE <<>>,
     symbols |-> IF kind = "start" THEN PostSymbols(symbolInput) ELSE <<>>]

\* setInterval(() => refreshData(), 10000): the timer keeps the refreshData of
\* the render in which the effect ran
NewTimer(active) == [active |-> active]

\* variant: the effect returns no cleanup
EffectCleanup_None(t) == t

\* return () => clearInterval(interval): the timer armed by the effect's last
\* run is cancelled
EffectCleanup(t) == IF t = <<>> THEN <<>> ELSE SubSeq(t, 1, Len(t) - 1)

\* variant: an empty dependency list, the effect runs at mount only
EffectReruns_Never(old, new) == FALSE

\* the dependency list [monitorStatus.active]: the effect runs again when the
\* value differs (Object.is) from the one of the previous render
EffectReruns(old, new) ==
    /\ appPhase = "mounted"
    /\ ActiveDep(old) # ActiveDep(new)

\* the effect body: refreshData() and a fresh timer, both of the new render
OpsAfterRender(old, new, o) ==
    IF EffectReruns(old, new)
    THEN Append(o, NewRefresh(ActiveDep(new)))
    ELSE o

TimersAfterRender(old, new) ==
    IF EffectReruns(old, new)
    THEN Append(EffectCleanup(timers), NewTimer(ActiveDep(new)))
    ELSE timers

\* the op once the request it awaits has settled and the code has run on to
\* `next`: its next await, or "done"
Advance(op, next) ==
    [op EXCEPT !.settled = @ \cup {op.awaiting},
               !.awaiting = next,
               !.issued = IF next = "done" THEN @ ELSE @ \cup {next}]

\* the calls in flight after op i has run on to `next`; a call that issues a
\* request goes to the end, which keeps the status requests in issue order
OpsAfter(o, i, next) ==
    IF next = "done"
    THEN RemoveAt(o, i)
    ELSE Append(RemoveAt(o, i), Advance(o[i], next))

\* fetchHealthStatus: setHealthStatus on success and on a transport failure
HealthAfter(kind, hs) ==
    IF kind = "ok" THEN HealthOk
    ELSE IF kind = "transport" THEN HealthError
    ELSE hs

\* variant: a success does not clear the error
ErrorAfterHealth_Keep(kind, err) ==
    IF kind = "ok" THEN err
    ELSE IF kind = "transport" THEN <<MsgCors>>
    ELSE <<MsgHealthHttp>>

\* variant: a health check that fails with an HTTP error status clears the error
ErrorAfterHealth_ClearOnFailure(kind, err) ==
    IF kind = "transport" THEN <<MsgCors>> ELSE <<>>

\* fetchHealthStatus: setError(null) on success; a TypeError (rejected fetch)
\* gives the CORS message, any other error its own message
ErrorAfterHealth(kind, err) ==
    IF kind = "ok" THEN <<>>
    ELSE IF kind = "transport" THEN <<MsgCors>>
    ELSE <<MsgHealthHttp>>

\* variant: a failed health check ends the refresh
AfterHealth_Abort(kind) == IF kind = "ok" THEN "status" ELSE "done"

\* refreshData after `await fetchHealthStatus()`: the catch is inside
\* fetchHealthStatus, so the refresh goes on to fetchMonitorStatus
AfterHealth(kind) == "status"

\* fetchMonitorStatus / fetchSignals: the body is decoded and stored without a
\* look at response.ok; a rejected fetch or decode is only logged
PollApplies(kind) == kind \in {"ok", "http"}

\* variant: a response issued before one already applied is dropped
StatusAfter_Epoch(current, body, stale) == IF stale THEN current ELSE body

\* setMonitorStatus(data)
StatusAfter(current, body, stale) == body

\* refreshData after `await fetchMonitorStatus()`: `if (monitorStatus.active)`
\* and fetchSignals' own `if (!monitorStatus.active) return`, both over the
\* monitorStatus of the render whose refreshData this is
AfterStatus(op) == IF op.active = "true" THEN "signals" ELSE "done"

\* the status requests issued before that of op i are now superseded
MarkStale(o, i) ==
    [j \in 1..Len(o) |->
        IF j < i /\ o[j].awaiting = "status"
        THEN [o[j] EXCEPT !.stale = TRUE]
        ELSE o[j]]

\* variant: the fallback text whatever the error body says
PostError_Fallback(cmd, kind, detail) ==
    IF kind = "transport" THEN MsgFailedToFetch
    ELSE IF cmd = "start" THEN MsgStartFailed ELSE MsgStopFailed

\* err.message of the catch of startMonitoring / stopMonitoring:
\* errorData.detail || 'Failed to ... monitoring', or the fetch's own message
PostError(cmd, kind, detail) ==
    IF kind = "transport" THEN MsgFailedToFetch
    ELSE IF detail # <<>> THEN detail[1]
    ELSE IF cmd = "start" THEN MsgStartFailed ELSE MsgStopFailed

\* variant: the finally block runs without waiting for the status refresh
LoadingAfterPostOk_Early(l) == FALSE

\* after a successful POST the call awaits fetchMonitorStatus: isLoading stays
LoadingAfterPostOk(l) == l

InFlightCount == Len(ops) + BagCardinality(detailCalls)

-----------------------------------------------------------------------------
(* App: state machine of the refresh cycle, the timer and start/stop *)

\* the first run of useEffect(..., [monitorStatus.active]), after the first
\* render: refreshData() and setInterval
AppMount ==
    /\ appPhase = "constructed"
    /\ appPhase' = "mounted"
    /\ ops' = Append(ops, NewRefresh(ActiveDep(monitorStatus)))
    /\ timers' = Append(timers, NewTimer(ActiveDep(monitorStatus)))
    /\ UNCHANGED <<monitorStatus, symbolDetails, selectedSymbol, isLoading, error,
                   activeView, detailCalls, healthStatus, signals, staleApplied>>
    /\ UNCHANGED widgetVars
    /\ UNCHANGED symbolInput

\* the App is torn down: the effect's cleanup runs
AppUnmount ==
    /\ appPhase = "mounted"
    /\ appPhase' = "unmounted"
    /\ timers' = EffectCleanup(timers)
    /\ UNCHANGED <<monitorStatus, symbolDetails, selectedSymbol, isLoading, error,
                   activeView, detailCalls, healthStatus, signals, ops,
                   staleApplied>>
    /\ UNCHANGED widgetVars
    /\ UNCHANGED symbolInput

\* an armed timer fires: the refreshData it keeps is called
TimerTick(k) ==
    /\ k \in 1..Len(timers)
    /\ InFlightCount < MaxInFlight
    /\ ops' = Append(ops, NewRefresh(timers[k].active))
    /\ UNCHANGED <<monitorStatus, symbolDetails, selectedSymbol, isLoading, error,
                   activeView, detailCalls, healthStatus, signals, appPhase,
                   timers, staleApplied>>
    /\ UNCHANGED widgetVars
    /\ UNCHANGED symbolInput

\* a click on Refresh (dashboard view): onClick={refreshData}
RefreshClick ==
    /\ appPhase = "mounted"
    /\ activeView = "dashboard"
    /\ ~isLoading
    /\ InFlightCount < MaxInFlight
    /\ ops' = Append(ops, NewRefresh(ActiveDep(monitorStatus)))
    /\ UNCHANGED <<monitorStatus, symbolDetails, selectedSymbol, isLoading, error,
                   activeView, detailCalls, healthStatus, signals, appPhase,
                   timers, staleApplied>>
    /\ UNCHANGED widgetVars
    /\ UNCHANGED symbolInput

\* the GET /health of refresh i settles; the refresh runs on to its next await
HealthSettles(i, kind) ==
    /\ i \in 1..Len(ops)
    /\ ops[i].awaiting = "health"
    /\ healthStatus' = Setter(healthStatus, HealthAfter(kind, healthStatus))
    /\ error' = Setter(error, ErrorAfterHealth(kind, error))
    /\ ops' = OpsAfter(ops, i, AfterHealth(kind))
    /\ UNCHANGED <<monitorStatus, symbolDetails, selectedSymbol, isLoading,
                   activeView, detailCalls, signals, appPhase, timers,
                   staleApplied>>
    /\ UNCHANGED widgetVars
    /\ UNCHANGED symbolInput

\* the GET /monitor/status of call i settles: what every such call does
StatusSettles(i, kind, body, next) ==
    /\ i \in 1..Len(ops)
    /\ ops[i].awaiting = "status"
    /\ LET applied == PollApplies(kind) /\ appPhase = "mounted"
           newStatus == IF applied
                        THEN StatusAfter(monitorStatus, body, ops[i].stale)
                        ELSE monitorStatus
           marked == IF applied THEN MarkStale(ops, i) ELSE ops
           after == OpsAfter(marked, i, next)
       IN  /\ EffectReruns(monitorStatus, newStatus) =>
                  Len(after) + BagCardinality(detailCalls) < MaxInFlight
           /\ monitorStatus' = newStatus
           /\ staleApplied' = IF applied THEN ops[i].stale ELSE staleApplied
           /\ ops' = OpsAfterRender(monitorStatus, newStatus, after)
           /\ timers' = TimersAfterRender(monitorStatus, newStatus)
    /\ UNCHANGED <<symbolDetails, selectedSymbol, activeView, detailCalls,
                   healthStatus, signals, appPhase>>
    /\ UNCHANGED widgetVars
    /\ UNCHANGED symbolInput

\* ... of a refresh: it runs on to fetchSignals or ends
RefreshStatusSettles(i, kind, body) ==
    /\ i \in 1..Len(ops)
    /\ ops[i].kind = "refresh"
    /\ StatusSettles(i, kind, body, AfterStatus(ops[i]))
    /\ UNCHANGED <<isLoading, error>>

\* ... of startMonitoring / stopMonitoring: setError(null), then the finally
CommandStatusSettles(i, kind, body) ==
    /\ i \in 1..Len(ops)
    /\ ops[i].kind \in {"start", "stop"}
    /\ StatusSettles(i, kind, body, "done")
    /\ error' = Setter(error, <<>>)
    /\ isLoading' = Setter(isLoading, FALSE)

\* the GET /monitor/signals of refresh i settles: the refresh ends
SignalsSettles(i, kind, body) ==
    /\ i \in 1..Len(ops)
    /\ ops[i].awaiting = "signals"
    /\ signals' = IF PollApplies(kind) THEN Setter(signals, body) ELSE signals
    /\ ops' = OpsAfter(ops, i, "done")
    /\ UNCHANGED <<monitorStatus, symbolDetails, selectedSymbol, isLoading, error,
                   activeView, detailCalls, healthStatus, appPhase, timers,
                   staleApplied>>
    /\ UNCHANGED widgetVars
    /\ UNCHANGED symbolInput

\* onChange of the "Symbols to Monitor" field:
\* disabled={monitorStatus.active || isLoading}
SymbolInputChange(text) ==
    /\ appPhase = "mounted"
    /\ activeView = "dashboard"
    /\ ~IsActive(monitorStatus)
    /\ ~isLoading
    /\ symbolInput' = text
    /\ UNCHANGED <<monitorStatus, symbolDetails, selectedSymbol, isLoading, error,
                   activeView, detailCalls, healthStatus, signals, appPhase,
                   timers, ops, staleApplied>>
    /\ UNCHANGED widgetVars

\* startMonitoring / stopMonitoring up to the await of the POST
Command(kind) ==
    /\ appPhase = "mounted"
    /\ activeView = "dashboard"
    /\ ~isLoading
    /\ InFlightCount < MaxInFlight
    /\ isLoading' = TRUE
    /\ ops' = Append(ops, NewCommand(kind))
    /\ UNCHANGED <<monitorStatus, symbolDetails, selectedSymbol, error,
                   activeView, detailCalls, healthStatus, signals, appPhase,
                   timers, staleApplied>>
    /\ UNCHANGED widgetVars
    /\ UNCHANGED symbolInput

\* a click on Start Monitoring: disabled={monitorStatus.active || isLoading}
startMonitoring ==
    /\ ~IsActive(monitorStatus)
    /\ Command("start")

\* a click on Stop Monitoring: disabled={!monitorStatus.active || isLoading}
stopMonitoring ==
    /\ IsActive(monitorStatus)
    /\ Command("stop")

\* the POST of call i settles: on success the call goes on to
\* fetchMonitorStatus, otherwise to its catch and finally
PostSettles(i, kind, detail) ==
    /\ i \in 1..Len(ops)
    /\ ops[i].awaiting = "post"
    /\ IF kind = "ok"
       THEN /\ ops' = OpsAfter(ops, i, "status")
            /\ isLoading' = Setter(isLoading, LoadingAfterPostOk(isLoading))
            /\ UNCHANGED error
       ELSE /\ ops' = OpsAfter(ops, i, "done")
            /\ error' = Setter(error, <<PostError(ops[i].kind, kind, detail)>>)
            /\ isLoading' = Setter(isLoading, FALSE)
    /\ UNCHANGED <<monitorStatus, symbolDetails, selectedSymbol, activeView,
                   detailCalls, healthStatus, signals, appPhase, timers,
                   staleApplied>>
    /\ UNCHANGED widgetVars
    /\ UNCHANGED symbolInput

Tick == \E k \in 1..Len(timers) : TimerTick(k)
HealthDone == \E i \in 1..Len(ops), kind \in HealthKinds : HealthSettles(i, kind)
RefreshStatusDone ==
    \E i \in 1..Len(ops), kind \in PollKinds :
        \E body \in StatusBodies(kind) : RefreshStatusSettles(i, kind, body)
CommandStatusDone ==
    \E i \in 1..Len(ops), kind \in PollKinds :
        \E body \in StatusBodies(kind) : CommandStatusSettles(i, kind, body)
SignalsDone ==
    \E i \in 1..Len(ops), kind \in PollKinds :
        \E body \in SignalsBodies(kind) : SignalsSettles(i, kind, body)
PostDone ==
    \E i \in 1..Len(ops), kind \in PostKinds :
        \E detail \in (IF kind = "http" THEN PostDetails ELSE {<<>>}) :
            PostSettles(i, kind, detail)
\* in ControlSpec a call is started by the timer or the user only while a slot
\* stays free for the refresh that the effect may start
SlotFree == InFlightCount + 1 < MaxInFlight

ControlTick == SlotFree /\ Tick
ControlRefreshClick == SlotFree /\ RefreshClick
ControlStart == SlotFree /\ startMonitoring
ControlStop == SlotFree /\ stopMonitoring
ControlTile ==
    /\ appPhase = "mounted"
    /\ SlotFree
    /\ TileClick(S_EURUSD)
ControlDetailRefresh ==
    /\ appPhase = "mounted"
    /\ SlotFree
    /\ DetailRefreshClick

InputChange == \E text \in TextInputs : SymbolInputChange(text)

\* typing in the symbols field and the start / stop commands
StartNext ==
    \/ AppMount
    \/ InputChange
    \/ HealthDone
    \/ RefreshStatusDone
    \/ CommandStatusDone
    \/ SignalsDone
    \/ ControlStart
    \/ ControlStop
    \/ PostDone

\* the polls of a backend that reports the monitor as active: a request may
\* fail at transport level, or be answered
StatusAnswered ==
    \E i \in 1..Len(ops) : RefreshStatusSettles(i, "ok", StatusActive)
StatusLost ==
    \E i \in 1..Len(ops) : RefreshStatusSettles(i, "transport", StatusInactive)
SignalsAnswered ==
    \E i \in 1..Len(ops) : SignalsSettles(i, "ok", SomeSignals)
SignalsLost ==
    \E i \in 1..Len(ops) : SignalsSettles(i, "transport", NoSignals)

\* the automatic refresh cycle of an App that stays mounted
LiveNext ==
    \/ AppMount
    \/ Tick
    \/ HealthDone
    \/ StatusAnswered
    \/ StatusLost
    \/ SignalsAnswered
    \/ SignalsLost

\* the refresh cycle alone: mount, timer, Refresh button, the three polls,
\* teardown
RefreshNext ==
    \/ AppMount
    \/ AppUnmount
    \/ Tick
    \/ RefreshClick
    \/ HealthDone
    \/ RefreshStatusDone
    \/ SignalsDone

\* every handler of the mounted App
ControlNext ==
    \/ AppMount
    \/ ControlTick
    \/ ControlRefreshClick
    \/ HealthDone
    \/ RefreshStatusDone
    \/ CommandStatusDone
    \/ SignalsDone
    \/ ControlStart
    \/ ControlStop
    \/ PostDone
    \/ ControlTile
    \/ ControlDetailRefresh
    \/ FetchResolves
    \/ FetchRejects
    \/ DecodeResolves
    \/ DecodeRejects
    \/ BackToDashboard

-----------------------------------------------------------------------------
(* Specifications *)

\* the widget constructed with any of the initial values, the App as constructed
WidgetInit ==
    /\ value \in InitialValues
    /\ disabled \in BOOLEAN
    /\ mounted = FALSE
    /\ selectedSymbols = <<>>
    /\ customSymbol = <<>>
    /\ syncRuns = 0
    /\ last = NoOp
    /\ monitorStatus = StatusInactive
    /\ symbolDetails = EmptyDetails
    /\ selectedSymbol = <<>>
    /\ isLoading = FALSE
    /\ error = <<>>
    /\ activeView = "dashboard"
    /\ detailCalls = EmptyBag
    /\ healthStatus = HealthUnknown
    /\ signals = NoSignals
    /\ appPhase = "constructed"
    /\ timers = <<>>
    /\ ops = <<>>
    /\ staleApplied = FALSE
    /\ symbolInput = T_Default

\* the App as constructed, the widget constructed and left alone
DetailInit ==
    /\ value = T_Default
    /\ disabled = FALSE
    /\ mounted = FALSE
    /\ selectedSymbols = <<>>
    /\ customSymbol = <<>>
    /\ syncRuns = 0
    /\ last = NoOp
    /\ monitorStatus = StatusInactive
    /\ symbolDetails = EmptyDetails
    /\ selectedSymbol = <<>>
    /\ isLoading = FALSE
    /\ error = <<>>
    /\ activeView = "dashboard"
    /\ detailCalls = EmptyBag
    /\ healthStatus = HealthUnknown
    /\ signals = NoSignals
    /\ appPhase = "constructed"
    /\ timers = <<>>
    /\ ops = <<>>
    /\ staleApplied = FALSE
    /\ symbolInput = T_Default

\* the widget whose parent stores every emitted text and nothing else
WidgetSpec == WidgetInit /\ [][WidgetNext]_vars

\* the widget whose parent may also replace the value on its own
WidgetExtSpec == WidgetInit /\ [][WidgetExtNext]_vars

\* the App's symbol-detail machinery under status polling
DetailSpec == DetailInit /\ [][DetailNext]_vars

\* the refresh cycle from construction to teardown
RefreshSpec == DetailInit /\ [][RefreshNext]_vars

\* the mounted App: the symbols field and the start / stop commands
StartSpec == DetailInit /\ [][StartNext]_vars

\* the automatic refresh cycle against an active backend: the effect runs
\* after the first render, the interval timer keeps firing, every request
\* settles, and a request that is issued again and again is answered
LiveSpec ==
    /\ DetailInit
    /\ [][LiveNext]_vars
    /\ WF_vars(AppMount)
    /\ WF_vars(Tick)
    /\ WF_vars(HealthDone)
    /\ SF_vars(StatusAnswered)
    /\ SF_vars(SignalsAnswered)

\* the mounted App: timer, refreshes, start/stop, detail fetches
ControlSpec == DetailInit /\ [][ControlNext]_vars

-----------------------------------------------------------------------------
(* Vocabulary of the properties, defined apart from the handlers' helpers *)

\* the pieces of a text between its commas, by a left-to-right scan
RECURSIVE ScanPieces(_, _, _)
ScanPieces(text, i, piece) ==
    IF i > Len(text) THEN <<piece>>
    ELSE IF text[i] = "," THEN <<piece>> \o ScanPieces(text, i + 1, <<>>)
    ELSE ScanPieces(text, i + 1, Append(piece, text[i]))

\* a piece without its leading and trailing white space
Strip(s) ==
    LET ink == {i \in 1..Len(s) : s[i] \notin {" ", "\t", "\n"}}
    IN  IF ink = {} THEN <<>>
        ELSE SubSeq(s, CHOOSE i \in ink : \A j \in ink : i <= j,
                       CHOOSE i \in ink : \A j \in ink : i >= j)

\* the tokens of a text: split on commas, trimmed, empties dropped
TokensOf(text) ==
    LET pieces == ScanPieces(text, 1, <<>>)
    IN  SelectSeq([i \in 1..Len(pieces) |-> Strip(pieces[i])], LAMBDA s : s # <<>>)

Catalog == {allCommonSymbols[i] : i \in 1..Len(allCommonSymbols)}

IsToken(s, text) == \E i \in 1..Len(TokensOf(text)) : TokensOf(text)[i] = s

\* the non-catalog tokens of a text, in order, duplicates included
CustomTokens(text) == SelectSeq(TokensOf(text), LAMBDA s : s \notin Catalog)

\* the checked catalog symbols, once each, in catalog order
CheckedInCatalogOrder(sel) == SelectSeq(allCommonSymbols, LAMBDA s : ObjGet(sel, s))

\* how often x occurs in arr
Count(arr, x) == Cardinality({i \in 1..Len(arr) : arr[i] = x})

\* the checkbox map and the text agree on every catalog symbol
Agrees(sel, text) == \A s \in Catalog : ObjGet(sel, s) <=> IsToken(s, text)

\* this step is a click on a catalog tile of the enabled widget
ToggleStep(s) == handleSymbolToggle(s) /\ ~disabled

\* this step adds the non-empty pending custom symbol of the enabled widget
AddStep == handleAddCustomSymbol /\ customSymbol # <<>> /\ ~disabled

-----------------------------------------------------------------------------
(* Properties of the SymbolSelector widget *)

\* C1: after the mount-time sync and any sequence of toggles, free-text edits
\* and custom-symbol adds (the parent storing every emitted text), every
\* catalog symbol is checked iff it is one of the tokens of the text.
C1_Agreement == mounted => Agrees(selectedSymbols, value)

\* C2: a toggle never drops a custom token: the non-catalog tokens of the
\* emitted text are those of the text before the toggle, in the same order,
\* duplicates included.
C2_ToggleKeepsCustomTokens ==
    [][\A s \in ToggleInputs :
          ToggleStep(s) =>
              /\ last'.emitted = <<value'>>
              /\ CustomTokens(value') = CustomTokens(value)]_vars

C2_Witness ==
    /\ last.op = "toggle"
    /\ CustomTokens(value) = <<S_FOO, S_FOO>>

\* C3: after a free-text edit to t, every catalog symbol's checkbox equals
\* its membership in the tokens of t, and the emitted value is t unmodified.
C3_DirectInputDerives ==
    last.op = "input" =>
        /\ last.emitted = <<last.arg>>
        /\ value = last.arg
        /\ \A s \in Catalog : ObjGet(selectedSymbols, s) <=> IsToken(s, last.arg)

C3_Witness ==
    /\ last.op = "input"
    /\ last.arg = T_Example
    /\ ObjGet(selectedSymbols, S_GBPUSD)
    /\ ~ObjGet(selectedSymbols, S_AUDUSD)

\* C4: adding a non-empty custom symbol c on the enabled widget: if c is
\* already a token of the text, the text is unchanged and nothing is emitted;
\* otherwise the emitted text is the existing tokens followed by c, and c
\* occurs exactly once more than before. Adding the same symbol twice in a row
\* yields the same text as adding it once.
C4_AddNoDuplicate ==
    [][AddStep =>
          /\ IF IsToken(customSymbol, value)
             THEN value' = value /\ last'.emitted = <<>>
             ELSE /\ last'.emitted = <<Join(Append(TokensOf(value), customSymbol))>>
                  /\ value' = last'.emitted[1]
                  /\ Count(TokensOf(value'), customSymbol)
                         = Count(TokensOf(value), customSymbol) + 1
          /\ (last.op = "add" /\ last.arg = customSymbol) => value' = value]_vars

\* C5: when the added symbol is a catalog symbol its checkbox becomes checked,
\* every other checkbox keeps its state, and the pending field becomes empty.
C5_AddCatalogSymbolChecks ==
    [][(AddStep /\ customSymbol \in Catalog) =>
          /\ ObjGet(selectedSymbols', customSymbol)
          /\ \A s \in Catalog \ {customSymbol} :
                 ObjGet(selectedSymbols', s) = ObjGet(selectedSymbols, s)
          /\ customSymbol' = <<>>]_vars

C5_Witness ==
    /\ last.op = "add"
    /\ last.arg = S_AUDUSD
    /\ last.emitted # <<>>
    /\ ObjGet(selectedSymbols, S_AUDUSD)
    /\ ObjGet(selectedSymbols, S_EURUSD)
    /\ customSymbol = <<>>

\* "EURUSD,GBPUSD,AUDUSD,FOO"
T_ExampleToggled == Join(<<S_EURUSD, S_GBPUSD, S_AUDUSD, S_FOO>>)

\* C6: the text emitted by a toggle is every checked catalog symbol exactly
\* once, in catalog order, followed by the non-catalog tokens of the prior
\* text, joined by commas without spaces; from "EURUSD, GBPUSD, FOO" toggling
\* AUDUSD on emits exactly "EURUSD,GBPUSD,AUDUSD,FOO".
C6_ToggleEmitsCheckedThenCustom ==
    [][\A s \in ToggleInputs :
          ToggleStep(s) =>
              /\ last'.emitted =
                     <<Join(CheckedInCatalogOrder(selectedSymbols') \o CustomTokens(value))>>
              /\ \A c \in Catalog :
                     ObjGet(selectedSymbols', c) = (ObjGet(selectedSymbols, c) # (c = s))
              /\ (s = S_AUDUSD /\ value = T_Example /\ Agrees(selectedSymbols, value))
                     => value' = T_ExampleToggled]_vars

C6_Witness ==
    /\ last.op = "toggle"
    /\ last.arg = S_AUDUSD
    /\ last.emitted = <<T_ExampleToggled>>
    /\ value = T_ExampleToggled

\* C7: deriving the checkbox map from a text is idempotent: deriving from the
\* same text again, on top of the map the first derivation produced, yields
\* that same map.
C7_DeriveIdempotent ==
    last.op = "input" => DeriveSelected(selectedSymbols, last.arg) = selectedSymbols

C7_Witness ==
    /\ last.op = "input"
    /\ last.arg = T_Messy
    /\ ObjGet(selectedSymbols, S_EURUSD)

\* C8: the text-to-checkbox sync runs exactly once, at mount: a change of the
\* value that comes from the parent and not from a widget edit leaves the
\* checkbox map unchanged.
C8_SyncRunsOnce ==
    /\ [](mounted => syncRuns = 1)
    /\ [][(\E t \in TextInputs : ParentSetsValue(t)) =>
             selectedSymbols' = selectedSymbols]_vars

C8_Witness ==
    /\ last.op = "external"
    /\ ~Agrees(selectedSymbols, value)
    /\ syncRuns = 1

-----------------------------------------------------------------------------
(* Properties of fetchSymbolDetails *)

\* this step is the failure of call c: one of its sub-requests is rejected
DetailFailStep(c) == DetailFetchRejects(c) \/ DetailDecodeRejects(c)

C10_RequestsConcurrent ==
    \A c \in InFlight : c.resolved # {} => c.issued = AllKinds

\* C10 (amended): the four requests are issued one after the other, in the
\* order chart, levels, analysis, price: a request is issued only once every
\* request before it has resolved, so at most one is outstanding.
C10_RequestsSequential ==
    \A c \in InFlight :
        /\ \A k \in c.issued :
               \A j \in 1..(KindIndex(k) - 1) : DetailKinds[j] \in c.resolved
        /\ c.resolved \subseteq c.issued
        /\ Cardinality(c.issued \ c.resolved) <= 1

\* the price request is outstanding, the three before it have resolved
C10_Witness ==
    \E c \in InFlight :
        /\ c.issued = AllKinds
        /\ c.resolved = {"chart", "levels", "analysis"}

\* C11: the detail cache only grows: no step of the program removes a key of
\* symbolDetails, whatever the interleaving of overlapping fetchSymbolDetails
\* calls.
C11_CacheOnlyGrows ==
    [][DOMAIN symbolDetails \subseteq DOMAIN symbolDetails']_vars

-----------------------------------------------------------------------------
(* Properties of the refresh cycle *)

\* the number of calls in flight that await the request r
AwaitingCount(o, r) == Cardinality({i \in 1..Len(o) : o[i].awaiting = r})

\* this step issues a GET r
Issues(r) == AwaitingCount(ops', r) > AwaitingCount(ops, r)

\* C12: no GET /monitor/signals is issued while the current
\* monitorStatus.active is false, not even by a refresh whose own status fetch
\* has just set the monitor inactive.
C12_NoSignalsWhileInactive ==
    [][Issues("signals") => IsActive(monitorStatus')]_vars

-----------------------------------------------------------------------------
(* Properties of startMonitoring and stopMonitoring *)

\* the calls of startMonitoring / stopMonitoring in flight
Commands == {i \in 1..Len(ops) : ops[i].kind \in {"start", "stop"}}

\* C13: when the POST of a start or stop command is answered with a
\* non-success status and a body {detail: d} with d non-empty, the error
\* becomes exactly d, isLoading becomes false, no second POST is issued and
\* no status refresh is issued: the call ends there.
C13_CommandFailureShowsDetail ==
    [][\A i \in Commands :
           PostSettles(i, "http", << <<"MT5 not connected">> >>) =>
               /\ error' = << <<"MT5 not connected">> >>
               /\ isLoading' = FALSE
               /\ ~Issues("post")
               /\ ~Issues("status")
               /\ ~Issues("health")
               /\ Len(ops') = Len(ops) - 1]_vars

\* a command has failed with the server's detail and nothing of it is left
C13_Witness ==
    /\ error = << <<"MT5 not connected">> >>
    /\ ~isLoading
    /\ Commands = {}
    /\ AwaitingCount(ops, "status") = 0

\* C14: on a successful POST the command issues GET /monitor/status only once
\* the POST has resolved, leaves error and isLoading as they are while that
\* request is outstanding, and clears the error and isLoading in the step in
\* which the status request settles (however it settles).
C14_CommandAwaitsStatus ==
    /\ [](\A i \in Commands :
              /\ "status" \in ops[i].issued => "post" \in ops[i].settled
              /\ ops[i].awaiting = "status" <=> "status" \in ops[i].issued)
    /\ [][\A i \in Commands :
              /\ PostSettles(i, "ok", <<>>) =>
                     /\ Issues("status")
                     /\ error' = error
                     /\ isLoading' = isLoading
              /\ \A kind \in PollKinds, body \in StatusInputs \cup {ErrorBody} :
                     CommandStatusSettles(i, kind, body) =>
                         /\ error' = <<>>
                         /\ isLoading' = FALSE]_vars

\* a command waits for its status refresh: the spinner is on and an earlier
\* error is still shown
C14_Witness ==
    \E i \in Commands :
        /\ ops[i].awaiting = "status"
        /\ "post" \in ops[i].settled
        /\ isLoading
        /\ error # <<>>

-----------------------------------------------------------------------------
(* Properties of the polls and of the error banner *)

\* the calls of refreshData in flight
Refreshes == {i \in 1..Len(ops) : ops[i].kind = "refresh"}

Mounted == appPhase = "mounted"

\* C15: in the mounted App, a GET /health that fails at transport level sets
\* the error to the CORS message and healthStatus to {status: error,
\* mt5_status: Unknown}; one that succeeds sets healthStatus to the response
\* body and the error to null.
C15_HealthOutcomes ==
    [][Mounted =>
       \A i \in Refreshes :
           /\ HealthSettles(i, "transport") =>
                  /\ error' = << <<"CORS Error: Cannot connect to API server. Make sure the API server is running and has CORS enabled.">> >>
                  /\ healthStatus' = [status |-> "error", mt5_status |-> "Unknown"]
           /\ HealthSettles(i, "ok") =>
                  /\ healthStatus' = [status |-> "ok", mt5_status |-> "Connected"]
                  /\ error' = <<>>]_vars

\* a health check has failed at transport level
C15_Witness ==
    /\ Mounted
    /\ error = <<MsgCors>>
    /\ healthStatus = [status |-> "error", mt5_status |-> "Unknown"]
    /\ \E i \in Refreshes : ops[i].awaiting = "status"

\* C16: a GET /monitor/status or GET /monitor/signals that fails (rejected
\* fetch, undecodable body, or HTTP error status) leaves the error as it is
\* and the slot (monitorStatus, signals) with its previous value.
C16_FailedPollChangesNothing ==
    [][\A i \in Refreshes, kind \in {"transport", "badjson", "http"} :
           /\ \A body \in StatusBodies(kind) :
                  RefreshStatusSettles(i, kind, body) =>
                      /\ error' = error
                      /\ monitorStatus' = monitorStatus
           /\ \A body \in SignalsBodies(kind) :
                  SignalsSettles(i, kind, body) =>
                      /\ error' = error
                      /\ signals' = signals]_vars

\* C17: an error that is set becomes null only in a step that is the
\* successful completion of fetchHealthStatus, of startMonitoring, of
\* stopMonitoring or of fetchSymbolDetails: no failed call, no outcome of
\* fetchMonitorStatus or fetchSignals, no timer tick and no view change
\* clears it.
C17_ErrorClearedOnlyBySuccess ==
    [][(error # <<>> /\ error' = <<>>) =>
           \/ \E i \in Refreshes : HealthSettles(i, "ok")
           \/ \E i \in Commands, kind \in PollKinds :
                  \E body \in StatusBodies(kind) :
                      /\ "post" \in ops[i].settled
                      /\ CommandStatusSettles(i, kind, body)
           \/ \E c \in InFlight : DetailDecodeResolves(c)]_vars

\* every call has returned, the refresh whose health check failed included
\* (its status poll settled after the failure), and the error is still shown
\* in the detail view
C17_Witness ==
    /\ error = <<MsgCors>>
    /\ ops = <<>>
    /\ detailCalls = EmptyBag
    /\ activeView = "symbolDetail"
    /\ IsActive(monitorStatus)

\* C18: within one refresh the status request is issued only after the health
\* request has settled, and the signals request only after the status request
\* has settled; a health or status request that fails does not end the
\* refresh: the next request is issued in the same step.
C18_RefreshInSequence ==
    /\ [](\A i \in Refreshes :
              /\ "status" \in ops[i].issued => "health" \in ops[i].settled
              /\ "signals" \in ops[i].issued => "status" \in ops[i].settled
              /\ ops[i].settled \subseteq ops[i].issued
              /\ Cardinality(ops[i].issued \ ops[i].settled) = 1)
    /\ [][\A i \in Refreshes, kind \in {"transport", "badjson", "http"} :
              /\ (kind \in HealthKinds /\ HealthSettles(i, kind)) => Issues("status")
              /\ \A body \in StatusBodies(kind) :
                     (ops[i].active = "true" /\ RefreshStatusSettles(i, kind, body))
                         => Issues("signals")]_vars

\* no health request has done anything but fail with an HTTP error status
\* (healthStatus is as constructed), and a refresh has gone on to its signals
C18_Witness ==
    /\ healthStatus = [status |-> "unknown", mt5_status |-> "Unknown"]
    /\ error = <<MsgHealthHttp>>
    /\ \E i \in Refreshes :
           /\ ops[i].awaiting = "signals"
           /\ ops[i].settled = {"health", "status"}

\* C19: at most one interval timer is armed; a step that changes
\* monitorStatus.active cancels the armed timer, starts one refresh at once
\* and arms one fresh timer, both over the new value; after teardown no timer
\* is armed and no refresh starts.
C19_TimerLifecycle ==
    /\ [](/\ Len(timers) <= 1
          /\ Mounted => Len(timers) = 1
          /\ appPhase = "unmounted" => timers = <<>>)
    /\ [][/\ ActiveDep(monitorStatus') # ActiveDep(monitorStatus) =>
                 /\ timers' = <<[active |-> ActiveDep(monitorStatus')]>>
                 /\ timers' # timers
                 /\ AwaitingCount(ops', "health") = AwaitingCount(ops, "health") + 1
                 /\ ops'[Len(ops')].awaiting = "health"
                 /\ ops'[Len(ops')].active = ActiveDep(monitorStatus')
          /\ appPhase = "unmounted" => ~Issues("health")]_vars

\* the App was torn down while the monitor was active and a refresh in flight
C19_Witness ==
    /\ appPhase = "unmounted"
    /\ IsActive(monitorStatus)
    /\ timers = <<>>
    /\ ops # <<>>

\* C20: status responses are applied in the order in which they arrive, with
\* no guard on the order in which the requests were issued: in the mounted App
\* every decoded status response is stored, also one whose request was issued
\* before a request whose response has already been stored.
C20_LastWriteWins ==
    [][Mounted =>
       \A i \in Refreshes, body \in StatusInputs :
           RefreshStatusSettles(i, "ok", body) => monitorStatus' = body]_vars

\* monitorStatus holds the response of the earlier request, stored after the
\* response of the later one
C20_Witness ==
    /\ Mounted
    /\ staleApplied
    /\ monitorStatus = StatusInactive

-----------------------------------------------------------------------------
(* Properties of the detail view and of isLoading *)

\* C21: whenever the active view is symbolDetail, a symbol is selected and
\* the detail cache holds an entry for it, whatever the interleaving of
\* overlapping fetchSymbolDetails calls, failures and Back clicks.
C21_DetailViewHasEntry ==
    activeView = "symbolDetail" =>
        /\ selectedSymbol # <<>>
        /\ selectedSymbol[1] \in DOMAIN symbolDetails

\* the detail view shows XAUUSD after an overlapping call has dropped the
\* entry of EURUSD from the cache, with another call still in flight
C21_Witness ==
    /\ activeView = "symbolDetail"
    /\ selectedSymbol = <<S_XAUUSD>>
    /\ DOMAIN symbolDetails = {S_XAUUSD}
    /\ \E c \in InFlight : S_EURUSD \in DOMAIN c.closure

\* C22: isLoading is true in every state in which a startMonitoring,
\* stopMonitoring or fetchSymbolDetails call is in flight, also when several
\* of them overlap.
C22_LoadingWhileInFlight ==
    (detailCalls # EmptyBag \/ Commands # {}) => isLoading

\* the calls of startMonitoring in flight
Starts == {i \in 1..Len(ops) : ops[i].kind = "start"}

\* C23: the symbols sent in the body of POST /monitor/start contain no empty
\* string: for every text of the symbols field they are its trimmed,
\* non-empty comma-separated tokens.
C23_PostSymbolsAreTokens ==
    \A i \in Starts :
        /\ \A k \in 1..Len(ops[i].symbols) : ops[i].symbols[k] # <<>>
        /\ ops[i].symbols = TokensOf(ops[i].symbolInput)

\* C24: in the mounted App, once a health check has failed in any way
\* (rejected fetch or non-success HTTP status), healthStatus.status is not
\* "ok": the server is not shown as connected next to the error of that check.
C24_FailedHealthNotOk ==
    [][Mounted =>
       \A i \in Refreshes, kind \in {"transport", "http"} :
           HealthSettles(i, kind) => healthStatus'.status # "ok"]_vars

\* C25: if the App stays mounted, the backend keeps reporting the monitor as
\* active and requests keep being answered, then a GET /monitor/signals is
\* eventually issued and signals eventually holds a backend response, although
\* the first refresh after mount runs with the initial, inactive status.
C25_SignalsEventuallyPolled ==
    /\ <>(AwaitingCount(ops, "signals") > 0)
    /\ <>(signals = [EURUSD |-> <<"bullish">>])

\* signals holds a backend response while the first kind of refresh, made with
\* the inactive status, is no longer the one the timer runs
C25_Witness ==
    /\ Mounted
    /\ signals = SomeSignals
    /\ timers = <<[active |-> "true"]>>

====
